---- MODULE Spec2Model ----
(***************************************************************************)
(* Ant-colony path search of explorer-wasmap.                              *)
(*                                                                         *)
(* Two engines live in the repository and both are modelled here:          *)
(*   - the open start->goal searcher (src/src/aco.go, driven by the wasm   *)
(*     wrappers of src/src/main.go lines 214-289), specification Spec;     *)
(*   - the closed-tour optimiser (src/src/main.go lines 1-213),            *)
(*     specification SpecTour.                                             *)
(*                                                                         *)
(* float64 values are modelled as exact non-negative rationals <<n, d>>    *)
(* in lowest terms; a zero denominator marks the two floats of the code    *)
(* that are no path cost: <<1, 0>> is math.Inf(1) and <<0, 0>> is          *)
(* math.MaxFloat64.  Rounding of float64 arithmetic is not modelled.       *)
(***************************************************************************)
EXTENDS Integers, Sequences, FiniteSets, TLC

VARIABLES
    mode,        \* "open" (aco.go) or "tour" (main.go): which engine runs
    antCount,    \* the constant AntCount of the run
    globalACO,   \* the engine (*ACO), or Nil before initACO
    requested,   \* args[0] of the last initACO call (history of the input)
    pc,          \* position inside Step: idle, ant, loop, evaporate, deposit
    k,           \* Step's ant counter
    antResults,  \* Step's antResults slice, filled so far
    path,        \* constructSolution: path
    visited,     \* constructSolution: visited
    current,     \* constructSolution: current
    step,        \* constructSolution: loop counter (open engine)
    ended,       \* how the last construction of the running Step returned
    last,        \* the latest completed Step of this engine: the pheromone
                 \* matrix at its entry and its antResults (history)
    calls        \* number of host calls made so far (bounded)

vars == <<mode, antCount, globalACO, requested, pc, k, antResults, path, visited,
          current, step, ended, last, calls>>

-----------------------------------------------------------------------------
(* Bounds of the model *)

\* largest nodeCount handed to initACO / largest number of cities
MaxNodes == 4
\* ants per step in the model (the source runs AntCount = 20)
AntCount == 2
\* host calls (initACO, stepACO) per run
MaxCalls == 3
\* how many of the nodeCount*3 shortcut draws are enumerated
MaxDraws == 1
\* iterations of the closed-tour run (the source runs Iterations = 100)
Iterations == 1

-----------------------------------------------------------------------------
(* float64 as exact rationals *)

Inf == <<1, 0>>
MaxFloat64 == <<0, 0>>
Zero == <<0, 1>>
One == <<1, 1>>

IsFinite(a) == a[2] # 0

RECURSIVE GCD(_, _)
GCD(a, b) == IF b = 0 THEN a ELSE GCD(b, a % b)

Norm(n, d) == LET g == GCD(n, d) IN <<n \div g, d \div g>>

\* a + b
RAdd(a, b) ==
    IF a = Inf \/ b = Inf THEN Inf
    ELSE LET g == GCD(a[2], b[2])
         IN Norm(a[1] * (b[2] \div g) + b[1] * (a[2] \div g), (a[2] \div g) * b[2])

\* a * b, both finite
RMul(a, b) ==
    LET g1 == GCD(a[1], b[2])
        g2 == GCD(b[1], a[2])
    IN Norm((a[1] \div g1) * (b[1] \div g2), (a[2] \div g2) * (b[2] \div g1))

\* a / b: x/Inf is 0, x/0 is Inf for x > 0
RDiv(a, b) ==
    IF b = Inf THEN Zero
    ELSE IF b[1] = 0 THEN Inf
    ELSE RMul(a, <<b[2], b[1]>>)

\* a < b in the order of float64: finite < MaxFloat64 < Inf
RLess(a, b) ==
    IF a = Inf THEN FALSE
    ELSE IF b = Inf THEN TRUE
    ELSE IF a = MaxFloat64 THEN FALSE
    ELSE IF b = MaxFloat64 THEN TRUE
    ELSE LET g == GCD(a[2], b[2])
         IN a[1] * (b[2] \div g) < b[1] * (a[2] \div g)

RGeq(a, b) == ~RLess(a, b)

\* math.Pow(a, e) for a finite a and a whole exponent e >= 1
RECURSIVE RPow(_, _)
RPow(a, e) == IF e = 1 THEN a ELSE RMul(a, RPow(a, e - 1))

-----------------------------------------------------------------------------
(* Parameters *)

Alpha == 1
Beta == 5
Evaporation == <<1, 2>>
Q == <<100, 1>>
InitialPheromone == <<1, 1>>
\* the floor of a normalised weight, 0.0001
MinWeight == <<1, 10000>>
\* the normalised weights the model draws for an edge, within [0.0001, 1]
Weights == {<<1, 2>>, <<1, 1>>}

Nil == [isNil |-> TRUE]

Idx(n) == 0 .. (n - 1)

\* 1.0 - a, for 0 <= a <= 1
ROneMinus(a) == Norm(a[2] - a[1], a[2])

-----------------------------------------------------------------------------
(* The open start->goal engine: src/src/aco.go *)

\* len(aco.Graph.Nodes)
NodeCount(a) == Cardinality(DOMAIN a.Nodes)

\* rawDist / MaxEuclideanDist with its floor: the coordinates are not modelled,
\* weight[{u, v}] is the normalised distance of the two nodes' coordinates
normalizedWeight(weight, u, v) == IF u = v THEN MinWeight ELSE weight[{u, v}]

\* mutant of addEdge: the test for an edge that is already there is missing
addEdgeAgain(g, u, v, weight) ==
    LET w == normalizedWeight(weight, u, v) IN
    [Distances  |-> [g.Distances EXCEPT ![u][v] = w, ![v][u] = w],
     Pheromones |-> [g.Pheromones EXCEPT ![u][v] = InitialPheromone,
                                         ![v][u] = InitialPheromone],
     Edges      |-> Append(g.Edges, [From |-> u, To |-> v, Weight |-> w])]

\* the closure addEdge of NewACO, on g = [Distances, Pheromones, Edges]
addEdge(g, u, v, weight) ==
    IF g.Distances[u][v] # Inf THEN g
    ELSE LET w == normalizedWeight(weight, u, v) IN
         [Distances  |-> [g.Distances EXCEPT ![u][v] = w, ![v][u] = w],
          Pheromones |-> [g.Pheromones EXCEPT ![u][v] = InitialPheromone,
                                              ![v][u] = InitialPheromone],
          Edges      |-> Append(g.Edges, [From |-> u, To |-> v, Weight |-> w])]

\* mutant of AddRing: the edge from the last node back to node 0 is left out
RECURSIVE AddRingOpen(_, _, _, _)
AddRingOpen(g, i, nodeCount, weight) ==
    IF i >= nodeCount - 1 THEN g
    ELSE AddRingOpen(addEdge(g, i, (i + 1) % nodeCount, weight), i + 1, nodeCount, weight)

\* the ring loop of NewACO, from index i on
RECURSIVE AddRing(_, _, _, _)
AddRing(g, i, nodeCount, weight) ==
    IF i >= nodeCount THEN g
    ELSE AddRing(addEdge(g, i, (i + 1) % nodeCount, weight), i + 1, nodeCount, weight)

\* the shortcut loop of NewACO over the drawn pairs, from draw i on
RECURSIVE AddShortcuts(_, _, _, _)
AddShortcuts(g, draws, i, weight) ==
    IF i > Len(draws) THEN g
    ELSE LET u == draws[i][1]
             v == draws[i][2]
         IN AddShortcuts(IF u # v THEN addEdge(g, u, v, weight) ELSE g,
                         draws, i + 1, weight)

\* the pairs of node indices whose distance the coordinates decide
Pairs(nodeCount) == {{u, v} : u \in Idx(nodeCount), v \in Idx(nodeCount)} \ {{u} : u \in Idx(nodeCount)}

\* the sequences of shortcut draws (u, v) the model enumerates: the first
\* MaxDraws of the nodeCount*3 draws; the others are taken to repeat them,
\* which addEdge ignores
RECURSIVE SeqsOfLen(_, _)
SeqsOfLen(S, len) ==
    IF len = 0 THEN {<<>>}
    ELSE {Append(s, x) : s \in SeqsOfLen(S, len - 1), x \in S}

ShortcutDraws(nodeCount) ==
    LET extraEdges == IF nodeCount * 3 < MaxDraws THEN nodeCount * 3 ELSE MaxDraws
    IN SeqsOfLen(Idx(nodeCount) \X Idx(nodeCount), extraEdges)

\* mutant of NewACO: the pheromone matrix starts at InitialPheromone everywhere
NewACOPheromoneEverywhere(nodeCount, weight, draws) ==
    LET empty == [Distances  |-> [i \in Idx(nodeCount) |-> [j \in Idx(nodeCount) |-> Inf]],
                  Pheromones |-> [i \in Idx(nodeCount) |-> [j \in Idx(nodeCount) |-> InitialPheromone]],
                  Edges      |-> <<>>]
        g == AddShortcuts(AddRing(empty, 0, nodeCount, weight), draws, 1, weight)
    IN [Nodes      |-> [i \in Idx(nodeCount) |-> i],
        Edges      |-> g.Edges,
        Distances  |-> g.Distances,
        Pheromones |-> g.Pheromones,
        BestDist   |-> MaxFloat64,
        BestPath   |-> <<>>,
        StartNode  |-> 0,
        GoalNode   |-> nodeCount - 1]

NewACO(nodeCount, weight, draws) ==
    LET empty == [Distances  |-> [i \in Idx(nodeCount) |-> [j \in Idx(nodeCount) |-> Inf]],
                  Pheromones |-> [i \in Idx(nodeCount) |-> [j \in Idx(nodeCount) |-> Zero]],
                  Edges      |-> <<>>]
        g == AddShortcuts(AddRing(empty, 0, nodeCount, weight), draws, 1, weight)
    IN [Nodes      |-> [i \in Idx(nodeCount) |-> i],
        Edges      |-> g.Edges,
        Distances  |-> g.Distances,
        Pheromones |-> g.Pheromones,
        BestDist   |-> MaxFloat64,
        BestPath   |-> <<>>,
        StartNode  |-> 0,
        GoalNode   |-> nodeCount - 1]

\* mutant of ClampNodeCount: the clamp is to 1
ClampToOne(numCities) == IF numCities < 1 THEN 1 ELSE numCities

\* initACOWrapper's clamp of numCities
ClampNodeCount(numCities) == IF numCities < 2 THEN 2 ELSE numCities

\* mutant of Eligible: the test for a visited node is missing
EligibleConnected(a, cur, vis, i) == a.Distances[cur][i] # Inf

\* mutant of Eligible: the test for an edge is missing
EligibleUnvisited(a, cur, vis, i) == ~vis[i]

\* the condition both scans of selectNextCity test (aco.go)
Eligible(a, cur, vis, i) == ~vis[i] /\ a.Distances[cur][i] # Inf

\* pheromone^Alpha * (1/distance)^Beta
Score(a, cur, i) ==
    RMul(RPow(a.Pheromones[cur][i], Alpha),
         RPow(RDiv(One, a.Distances[cur][i]), Beta))

\* the probabilities slice of selectNextCity (aco.go)
Probabilities(a, cur, vis) ==
    [i \in DOMAIN a.Nodes |-> IF Eligible(a, cur, vis, i) THEN Score(a, cur, i) ELSE Zero]

\* p[0] + ... + p[i-1]
RECURSIVE SumBelow(_, _)
SumBelow(p, i) == IF i = 0 THEN Zero ELSE RAdd(SumBelow(p, i - 1), p[i - 1])

\* the values r = Rand.Float64() * sumProb the model draws: 0, and the middle
\* of every positive score's stretch of [0, sumProb)
DrawsOf(p, n) ==
    {Zero} \cup {RAdd(SumBelow(p, i), RMul(p[i], <<1, 2>>)) : i \in {j \in Idx(n) : p[j] # Zero}}

\* the roulette scan over the candidates el, from index i on; -2 when it falls
\* through
RECURSIVE Roulette(_, _, _, _, _)
Roulette(el, p, r, i, n) ==
    IF i >= n THEN -2
    ELSE IF i \in el /\ RGeq(SumBelow(p, i + 1), r) THEN i
    ELSE Roulette(el, p, r, i + 1, n)

\* the fallback scan: the first candidate, or -1
Fallback(el) == IF el = {} THEN -1 ELSE CHOOSE i \in el : \A j \in el : i <= j

\* selectNextCity of aco.go once the scores p of the candidates el are computed
selectFrom(p, el, n, r) ==
    IF SumBelow(p, n) = Zero THEN -1
    ELSE LET i == Roulette(el, p, r, 0, n)
         IN IF i # -2 THEN i ELSE Fallback(el)

selectNextCity(a, cur, vis, r) ==
    selectFrom(Probabilities(a, cur, vis),
               {i \in DOMAIN a.Nodes : Eligible(a, cur, vis, i)}, NodeCount(a), r)

\* what selectNextCity(cur, vis) returns, over the draws of the model
Selections(a, cur, vis) ==
    LET p == Probabilities(a, cur, vis)
        el == {i \in DOMAIN a.Nodes : Eligible(a, cur, vis, i)}
        n == NodeCount(a)
    IN {selectFrom(p, el, n, r) : r \in DrawsOf(p, n)}

\* mutant of calculatePathDistance: the first edge is left out
RECURSIVE calculatePathDistanceFromSecond(_, _)
calculatePathDistanceFromSecond(a, pth) ==
    IF Len(pth) < 3 THEN Zero
    ELSE RAdd(calculatePathDistanceFromSecond(a, SubSeq(pth, 1, Len(pth) - 1)),
              a.Distances[pth[Len(pth) - 1]][pth[Len(pth)]])

\* calculatePathDistance of aco.go: no return edge
RECURSIVE calculatePathDistance(_, _)
calculatePathDistance(a, pth) ==
    IF Len(pth) < 2 THEN Zero
    ELSE RAdd(calculatePathDistance(a, SubSeq(pth, 1, Len(pth) - 1)),
              a.Distances[pth[Len(pth) - 1]][pth[Len(pth)]])

\* phase 2 of Step: every entry with an edge is multiplied by 1 - Evaporation
evaporate(a) ==
    [i \in DOMAIN a.Nodes |-> [j \in DOMAIN a.Nodes |->
        IF a.Distances[i][j] # Inf
        THEN RMul(a.Pheromones[i][j], ROneMinus(Evaporation))
        ELSE a.Pheromones[i][j]]]

\* mutant of depositPath: the reverse entry [v][u] is not written
RECURSIVE depositPathOneWay(_, _, _, _)
depositPathOneWay(ph, pth, deposit, i) ==
    IF i > Len(pth) - 1 THEN ph
    ELSE depositPathOneWay([ph EXCEPT ![pth[i]][pth[i + 1]] = RAdd(@, deposit)],
                           pth, deposit, i + 1)

\* the inner loop of phase 3 over one ant's path, from position i on
RECURSIVE depositPath(_, _, _, _)
depositPath(ph, pth, deposit, i) ==
    IF i > Len(pth) - 1 THEN ph
    ELSE LET u == pth[i]
             v == pth[i + 1]
             ph1 == [ph EXCEPT ![u][v] = RAdd(@, deposit)]
             ph2 == [ph1 EXCEPT ![v][u] = RAdd(@, deposit)]
         IN depositPath(ph2, pth, deposit, i + 1)

\* phase 3 of Step over antResults, from result i on
RECURSIVE depositAll(_, _, _)
depositAll(ph, results, i) ==
    IF i > Len(results) THEN ph
    ELSE IF ~results[i].Success THEN depositAll(ph, results, i + 1)
    ELSE depositAll(depositPath(ph, results[i].Path, RDiv(Q, results[i].Dist), 1),
                    results, i + 1)

\* mutant of updatePheromones: the deposits are made before the evaporation
depositThenEvaporate(a, results) ==
    evaporate([a EXCEPT !.Pheromones = depositAll(a.Pheromones, results, 1)])

\* phases 2 and 3 of Step in the order of the code
updatePheromones(a, results) == depositAll(evaporate(a), results, 1)

\* the zero value of AntResult
NoResult == [Path |-> <<>>, Dist |-> Zero, Success |-> FALSE]

\* mutant of IsBetter: a tie replaces the best
IsBetterOrEqual(dist, best) == RLess(dist, best) \/ dist = best

\* Step's test for a new best
IsBetter(dist, best) == RLess(dist, best)

\* mutant of maxSteps: the budget is one step per node but the first
maxStepsTight(a) == NodeCount(a) - 1

\* maxSteps of constructSolution
maxSteps(a) == NodeCount(a) * 2

-----------------------------------------------------------------------------
(* Actions of the open engine *)

Engine == globalACO # Nil

\* Step's frame when no Step runs
NoFrame ==
    /\ pc' = "idle"
    /\ k' = 0
    /\ antResults' = <<>>
    /\ path' = <<>>
    /\ visited' = <<>>
    /\ current' = 0
    /\ step' = 0
    /\ ended' = "none"

NoLast == [pre |-> <<>>, results |-> <<>>]

\* the node pairs NewACO(nodeCount) with these shortcut draws gives an edge
EdgePairs(nodeCount, draws) ==
    ({{i, (i + 1) % nodeCount} : i \in Idx(nodeCount)}
        \cup {{draws[d][1], draws[d][2]} : d \in DOMAIN draws})
    \ {{u} : u \in Idx(nodeCount)}

\* initACO(numCities) from the host
initACOWrapper(arg) ==
    /\ mode = "open"
    /\ pc = "idle"
    /\ calls < MaxCalls
    /\ LET numCities == ClampNodeCount(arg) IN
       \E draws \in ShortcutDraws(numCities) :
       \E weight \in [EdgePairs(numCities, draws) -> Weights] :
           globalACO' = NewACO(numCities, weight, draws)
    /\ requested' = arg
    /\ NoFrame
    /\ last' = NoLast
    /\ calls' = calls + 1
    /\ UNCHANGED <<mode, antCount>>

\* stepACO() from the host enters Step (without an engine it returns "{}")
stepWrapper ==
    /\ mode = "open"
    /\ pc = "idle"
    /\ Engine
    /\ calls < MaxCalls
    /\ pc' = "ant"
    /\ k' = 0
    /\ antResults' = [i \in 1 .. antCount |-> NoResult]
    /\ calls' = calls + 1
    /\ UNCHANGED <<mode, antCount, globalACO, requested, path, visited, current, step, ended, last>>

\* Step calls constructSolution for ant k
constructBegin ==
    /\ mode = "open"
    /\ pc = "ant"
    /\ k < antCount
    /\ path' = <<globalACO.StartNode>>
    /\ visited' = [i \in DOMAIN globalACO.Nodes |-> i = globalACO.StartNode]
    /\ current' = globalACO.StartNode
    /\ step' = 0
    /\ pc' = "loop"
    /\ ended' = "none"
    /\ UNCHANGED <<mode, antCount, globalACO, requested, k, antResults, last, calls>>

\* one pass of constructSolution's loop that moves the ant
constructMove ==
    /\ mode = "open"
    /\ pc = "loop"
    /\ step < maxSteps(globalACO)
    /\ current # globalACO.GoalNode
    /\ \E next \in Selections(globalACO, current, visited) :
          /\ next # -1
          /\ path' = Append(path, next)
          /\ visited' = [visited EXCEPT ![next] = TRUE]
          /\ current' = next
    /\ step' = step + 1
    /\ UNCHANGED <<mode, antCount, globalACO, requested, pc, k, antResults, ended, last, calls>>

\* mutant of Outcome: the selection is tried before the test for the goal
OutcomeSelectFirst(a, cur, vis, st) ==
    IF st >= maxSteps(a) THEN "budget"
    ELSE IF -1 \in Selections(a, cur, vis) THEN "deadend"
    ELSE IF cur = a.GoalNode THEN "goal"
    ELSE "move"

\* how constructSolution returns from the state it is in: "budget", "goal",
\* "deadend", or "move" when the loop goes on
Outcome(a, cur, vis, st) ==
    IF st >= maxSteps(a) THEN "budget"
    ELSE IF cur = a.GoalNode THEN "goal"
    ELSE IF -1 \in Selections(a, cur, vis) THEN "deadend"
    ELSE "move"

\* mutant of recordSuccess: a new best replaces the cost and keeps the old path
recordSuccessCostOnly(a, pth) ==
    LET dist == calculatePathDistance(a, pth) IN
    [result |-> [Path |-> pth, Dist |-> dist, Success |-> TRUE],
     aco    |-> IF IsBetter(dist, a.BestDist)
                THEN [a EXCEPT !.BestDist = dist]
                ELSE a]

\* mutant of recordSuccess: the ant deposits on its path as soon as it returns
recordSuccessDepositing(a, pth) ==
    LET dist == calculatePathDistance(a, pth)
        b == [a EXCEPT !.Pheromones = depositPath(a.Pheromones, pth, RDiv(Q, dist), 1)]
    IN [result |-> [Path |-> pth, Dist |-> dist, Success |-> TRUE],
        aco    |-> IF IsBetter(dist, a.BestDist)
                   THEN [b EXCEPT !.BestDist = dist, !.BestPath = pth]
                   ELSE b]

\* Step's record of a successful ant and its update of the best solution
recordSuccess(a, pth) ==
    LET dist == calculatePathDistance(a, pth) IN
    [result |-> [Path |-> pth, Dist |-> dist, Success |-> TRUE],
     aco    |-> IF IsBetter(dist, a.BestDist)
                THEN [a EXCEPT !.BestDist = dist, !.BestPath = pth]
                ELSE a]

\* mutant of recordFailure: the walk of a failed ant is recorded as a success
recordFailureAsSuccess(a) == recordSuccess(a, path)

\* Step's record of a failed ant
recordFailure(a) == [result |-> [NoResult EXCEPT !.Success = FALSE], aco |-> a]

\* constructSolution returns and Step records the ant's result
constructReturn ==
    /\ mode = "open"
    /\ pc = "loop"
    /\ LET out == Outcome(globalACO, current, visited, step)
           rec == IF out = "goal" THEN recordSuccess(globalACO, path)
                  ELSE recordFailure(globalACO)
       IN /\ out # "move"
          /\ ended' = out
          /\ antResults' = [antResults EXCEPT ![k + 1] = rec.result]
          /\ globalACO' = rec.aco
    /\ k' = k + 1
    /\ pc' = "ant"
    /\ UNCHANGED <<mode, antCount, requested, path, visited, current, step, last, calls>>

\* mutant of stepUpdate: the evaporation scales the distance entries as well
stepUpdateScalingDistances ==
    /\ mode = "open"
    /\ pc = "ant"
    /\ k >= antCount
    /\ globalACO' = [globalACO EXCEPT
            !.Pheromones = updatePheromones(globalACO, antResults),
            !.Distances = [i \in DOMAIN globalACO.Nodes |-> [j \in DOMAIN globalACO.Nodes |->
                IF globalACO.Distances[i][j] # Inf
                THEN RMul(globalACO.Distances[i][j], ROneMinus(Evaporation))
                ELSE Inf]]]
    /\ last' = [pre |-> globalACO.Pheromones, results |-> antResults]
    /\ NoFrame
    /\ UNCHANGED <<mode, antCount, requested, calls>>

\* phases 2 and 3 of Step, after the last ant; Step returns
stepUpdate ==
    /\ mode = "open"
    /\ pc = "ant"
    /\ k >= antCount
    /\ globalACO' = [globalACO EXCEPT !.Pheromones = updatePheromones(globalACO, antResults)]
    /\ last' = [pre |-> globalACO.Pheromones, results |-> antResults]
    /\ NoFrame
    /\ UNCHANGED <<mode, antCount, requested, calls>>

\* the nodeCount values the host passes to initACO
NodeCountArgs == -1 .. MaxNodes

Init ==
    /\ mode = "open"
    /\ antCount = AntCount
    /\ globalACO = Nil
    /\ requested = 0
    /\ pc = "idle"
    /\ k = 0
    /\ antResults = <<>>
    /\ path = <<>>
    /\ visited = <<>>
    /\ current = 0
    /\ step = 0
    /\ ended = "none"
    /\ last = NoLast
    /\ calls = 0

Next ==
    \/ \E arg \in NodeCountArgs : initACOWrapper(arg)
    \/ stepWrapper
    \/ constructBegin
    \/ constructMove
    \/ constructReturn
    \/ stepUpdate

Spec == Init /\ [][Next]_vars

-----------------------------------------------------------------------------
(* The closed-tour engine: src/src/main.go lines 1-213 *)

\* len(aco.Cities)
CityCount(a) == Cardinality(DOMAIN a.Cities)

Abs(x) == IF x < 0 THEN -x ELSE x

\* math.Hypot of the coordinate differences; the model's cities lie on one
\* horizontal line, where it is |dx| exactly
Hypot(dx, dy) == IF dy = 0 THEN <<Abs(dx), 1>> ELSE IF dx = 0 THEN <<Abs(dy), 1>> ELSE Inf

\* NewACO(cities) of main.go
TourNewACO(cities) ==
    LET n == Cardinality(DOMAIN cities) IN
    [Cities     |-> cities,
     Distances  |-> [i \in Idx(n) |-> [j \in Idx(n) |->
                        IF i # j THEN Hypot(cities[i].X - cities[j].X, cities[i].Y - cities[j].Y)
                        ELSE Zero]],
     Pheromones |-> [i \in Idx(n) |-> [j \in Idx(n) |->
                        IF i # j THEN InitialPheromone ELSE Zero]],
     BestDist   |-> MaxFloat64,
     BestPath   |-> <<>>]

\* the probabilities slice of selectNextCity (main.go)
TourProbabilities(a, cur, vis) ==
    [i \in DOMAIN a.Cities |-> IF ~vis[i] THEN Score(a, cur, i) ELSE Zero]

\* mutant of TourSelectFrom: the scans do not skip the visited cities
TourSelectFromAny(p, el, n, r) ==
    LET i == Roulette(Idx(n), p, r, 0, n)
    IN IF i # -2 THEN i ELSE Fallback(Idx(n))

\* selectNextCity of main.go once the scores p are computed: no test of the
\* sum, and the candidates el are the unvisited cities
TourSelectFrom(p, el, n, r) ==
    LET i == Roulette(el, p, r, 0, n)
    IN IF i # -2 THEN i ELSE Fallback(el)

TourSelectNextCity(a, cur, vis, r) ==
    TourSelectFrom(TourProbabilities(a, cur, vis),
                   {i \in DOMAIN a.Cities : ~vis[i]}, CityCount(a), r)

\* what main.go's selectNextCity(cur, vis) returns, over the draws of the model
TourSelections(a, cur, vis) ==
    LET p == TourProbabilities(a, cur, vis)
        el == {i \in DOMAIN a.Cities : ~vis[i]}
        n == CityCount(a)
    IN {TourSelectFrom(p, el, n, r) : r \in DrawsOf(p, n)}

\* calculatePathDistance of main.go: with the edge back to the start
TourCalculatePathDistance(a, pth) ==
    RAdd(calculatePathDistance(a, pth), a.Distances[pth[Len(pth)]][pth[1]])

\* phase 2 of main.go's Step: every entry is multiplied
TourEvaporate(a) ==
    [i \in DOMAIN a.Cities |-> [j \in DOMAIN a.Cities |->
        RMul(a.Pheromones[i][j], ROneMinus(Evaporation))]]

\* one ant's deposit of main.go's Step: the n-1 path edges and the closing edge
TourDepositPath(ph, pth, deposit, n) ==
    LET ph1 == depositPath(ph, SubSeq(pth, 1, n), deposit, 1)
        u == pth[n]
        v == pth[1]
        ph2 == [ph1 EXCEPT ![u][v] = RAdd(@, deposit)]
    IN [ph2 EXCEPT ![v][u] = RAdd(@, deposit)]

\* phase 3 of main.go's Step over antResults, from result i on
RECURSIVE TourDepositAll(_, _, _, _)
TourDepositAll(ph, results, i, n) ==
    IF i > Len(results) THEN ph
    ELSE TourDepositAll(TourDepositPath(ph, results[i].Path, RDiv(Q, results[i].Dist), n),
                        results, i + 1, n)

\* phases 2 and 3 of main.go's Step in the order of the code
TourUpdatePheromones(a, results) ==
    TourDepositAll(TourEvaporate(a), results, 1, CityCount(a))

\* main.go's Step: the ant's result and the update of the best solution
TourRecord(a, pth) ==
    LET dist == TourCalculatePathDistance(a, pth) IN
    [result |-> [Path |-> pth, Dist |-> dist, Success |-> TRUE],
     aco    |-> IF IsBetter(dist, a.BestDist)
                THEN [a EXCEPT !.BestDist = dist, !.BestPath = pth]
                ELSE a]

\* Run's loop calls Step(iter)
TourStepBegin ==
    /\ mode = "tour"
    /\ pc = "idle"
    /\ calls < Iterations
    /\ pc' = "ant"
    /\ k' = 0
    /\ antResults' = [i \in 1 .. antCount |-> NoResult]
    /\ calls' = calls + 1
    /\ UNCHANGED <<mode, antCount, globalACO, requested, path, visited, current, step, ended, last>>

\* Step calls constructSolution for ant k: a random start city
TourConstructBegin ==
    /\ mode = "tour"
    /\ pc = "ant"
    /\ k < antCount
    /\ \E start \in DOMAIN globalACO.Cities :
          /\ path' = <<start>>
          /\ visited' = [i \in DOMAIN globalACO.Cities |-> i = start]
          /\ current' = start
    /\ step' = 0
    /\ pc' = "loop"
    /\ ended' = "none"
    /\ UNCHANGED <<mode, antCount, globalACO, requested, k, antResults, last, calls>>

\* one pass of constructSolution's loop
TourConstructMove ==
    /\ mode = "tour"
    /\ pc = "loop"
    /\ Len(path) < CityCount(globalACO)
    /\ \E next \in TourSelections(globalACO, current, visited) :
          /\ next # -1
          /\ path' = Append(path, next)
          /\ visited' = [visited EXCEPT ![next] = TRUE]
          /\ current' = next
    /\ step' = step + 1
    /\ UNCHANGED <<mode, antCount, globalACO, requested, pc, k, antResults, ended, last, calls>>

\* constructSolution returns the full path and Step records it
TourConstructReturn ==
    /\ mode = "tour"
    /\ pc = "loop"
    /\ Len(path) >= CityCount(globalACO)
    /\ LET rec == TourRecord(globalACO, path) IN
          /\ antResults' = [antResults EXCEPT ![k + 1] = rec.result]
          /\ globalACO' = rec.aco
    /\ ended' = "tour"
    /\ k' = k + 1
    /\ pc' = "ant"
    /\ UNCHANGED <<mode, antCount, requested, path, visited, current, step, last, calls>>

\* phases 2 and 3 of main.go's Step, after the last ant; Step returns
TourStepUpdate ==
    /\ mode = "tour"
    /\ pc = "ant"
    /\ k >= antCount
    /\ globalACO' = [globalACO EXCEPT !.Pheromones = TourUpdatePheromones(globalACO, antResults)]
    /\ last' = [pre |-> globalACO.Pheromones, results |-> antResults]
    /\ NoFrame
    /\ UNCHANGED <<mode, antCount, requested, calls>>

\* the city lists of the model: 2 to MaxNodes cities at distinct whole
\* x coordinates below MaxNodes, all at y = 0
CityLists ==
    {c \in UNION {[Idx(n) -> [X : Idx(MaxNodes), Y : {0}]] : n \in 2 .. MaxNodes} :
        \A i, j \in DOMAIN c : i # j => c[i].X # c[j].X}

\* the state when main has built the engine and calls Run
TourInit ==
    /\ mode = "tour"
    /\ antCount = AntCount
    /\ \E cities \in CityLists : globalACO = TourNewACO(cities)
    /\ requested = 0
    /\ pc = "idle"
    /\ k = 0
    /\ antResults = <<>>
    /\ path = <<>>
    /\ visited = <<>>
    /\ current = 0
    /\ step = 0
    /\ ended = "none"
    /\ last = NoLast
    /\ calls = 0

TourNext ==
    \/ TourStepBegin
    \/ TourConstructBegin
    \/ TourConstructMove
    \/ TourConstructReturn
    \/ TourStepUpdate

SpecTour == TourInit /\ [][TourNext]_vars

\* both engines
AllInit == Init \/ TourInit

AllNext == Next \/ TourNext

SpecAll == AllInit /\ [][AllNext]_vars

-----------------------------------------------------------------------------
(* The open engine on the path graph 0-1-2-3 (start 0, goal 3) *)

PathEdges == <<<<0, 1>>, <<1, 2>>, <<2, 3>>>>

\* an engine as NewACO builds it, but with the edges of PathEdges only
PathACO(weight) ==
    LET n == Len(PathEdges) + 1
        empty == [Distances  |-> [i \in Idx(n) |-> [j \in Idx(n) |-> Inf]],
                  Pheromones |-> [i \in Idx(n) |-> [j \in Idx(n) |-> Zero]],
                  Edges      |-> <<>>]
        g == AddShortcuts(empty, PathEdges, 1, weight)
    IN [Nodes      |-> [i \in Idx(n) |-> i],
        Edges      |-> g.Edges,
        Distances  |-> g.Distances,
        Pheromones |-> g.Pheromones,
        BestDist   |-> MaxFloat64,
        BestPath   |-> <<>>,
        StartNode  |-> 0,
        GoalNode   |-> n - 1]

PathInit ==
    /\ mode = "open"
    /\ antCount = AntCount
    /\ \E weight \in [EdgePairs(0, PathEdges) -> Weights] : globalACO = PathACO(weight)
    /\ requested = 0
    /\ pc = "idle"
    /\ k = 0
    /\ antResults = <<>>
    /\ path = <<>>
    /\ visited = <<>>
    /\ current = 0
    /\ step = 0
    /\ ended = "none"
    /\ last = NoLast
    /\ calls = 0

PathNext ==
    \/ stepWrapper
    \/ constructBegin
    \/ constructMove
    \/ constructReturn
    \/ stepUpdate

SpecPath == PathInit /\ [][PathNext]_vars

-----------------------------------------------------------------------------
(* The closed-tour engine on the ring 0-1-2-3-4-0, one ant *)

RingNodes == 0 .. 4

RingEdge(i, j) ==
    LET n == Cardinality(RingNodes) IN j = (i + 1) % n \/ i = (j + 1) % n

\* distance 1.0 and pheromone 1.0 on the ring edges, no other edge
RingACO ==
    [Cities     |-> [i \in RingNodes |-> [X |-> 0, Y |-> 0]],
     Distances  |-> [i \in RingNodes |-> [j \in RingNodes |->
                        IF RingEdge(i, j) THEN One ELSE Inf]],
     Pheromones |-> [i \in RingNodes |-> [j \in RingNodes |->
                        IF RingEdge(i, j) THEN One ELSE Zero]],
     BestDist   |-> MaxFloat64,
     BestPath   |-> <<>>]

RingInit ==
    /\ mode = "tour"
    /\ antCount = 1
    /\ globalACO = RingACO
    /\ requested = 0
    /\ pc = "idle"
    /\ k = 0
    /\ antResults = <<>>
    /\ path = <<>>
    /\ visited = <<>>
    /\ current = 0
    /\ step = 0
    /\ ended = "none"
    /\ last = NoLast
    /\ calls = 0

SpecRing == RingInit /\ [][TourNext]_vars

-----------------------------------------------------------------------------
(* The open engine after its pheromone has evaporated to zero *)

\* some walk of constructSolution from cur with the nodes of seen visited ends
\* in a dead end: every move to an unvisited neighbour has a positive score
\* while the pheromone is positive, so the draws can make an ant walk it
RECURSIVE DeadEndFrom(_, _, _)
DeadEndFrom(a, cur, seen) ==
    IF cur = a.GoalNode THEN FALSE
    ELSE LET nb == {i \in DOMAIN a.Nodes : i \notin seen /\ a.Distances[cur][i] # Inf}
         IN nb = {} \/ \E i \in nb : DeadEndFrom(a, i, seen \cup {i})

\* the engine a after n >= 1075 Steps in each of which every ant ended in a
\* dead end: no Step deposited, so every edge holds InitialPheromone * 0.5^n,
\* which is 0 in float64 (the smallest positive float64 is 2^-1074, and half
\* of it rounds to 0)
EvaporatedACO(a) ==
    [a EXCEPT !.Pheromones = [i \in DOMAIN a.Nodes |-> [j \in DOMAIN a.Nodes |-> Zero]]]

EvaporatedInit ==
    /\ mode = "open"
    /\ antCount = AntCount
    /\ \E n \in 2 .. MaxNodes :
       \E draws \in ShortcutDraws(n) :
       \E weight \in [EdgePairs(n, draws) -> Weights] :
           LET a == NewACO(n, weight, draws) IN
           /\ DeadEndFrom(a, a.StartNode, {a.StartNode})
           /\ globalACO = EvaporatedACO(a)
           /\ requested = n
    /\ pc = "idle"
    /\ k = 0
    /\ antResults = <<>>
    /\ path = <<>>
    /\ visited = <<>>
    /\ current = 0
    /\ step = 0
    /\ ended = "none"
    /\ last = [pre |-> globalACO.Pheromones,
               results |-> [i \in 1 .. AntCount |-> NoResult]]
    /\ calls = 0

SpecEvaporated == EvaporatedInit /\ [][Next]_vars

-----------------------------------------------------------------------------
(* Properties *)

\* the node indices of the engine, whichever engine runs
NodesOf(a) == IF mode = "open" THEN DOMAIN a.Nodes ELSE DOMAIN a.Cities

\* no Step is running and the engine has completed one
AfterStep == globalACO # Nil /\ pc = "idle" /\ last # NoLast

\* the state a construction has just returned in
Returned == pc = "ant" /\ k > 0

\* C1: in every state reachable from initialisation by Step calls, for all
\* node indices i, j, distance(i,j) = distance(j,i) and
\* pheromone(i,j) = pheromone(j,i).
C1_Symmetry ==
    (mode = "open" /\ globalACO # Nil /\ pc = "idle") =>
        \A i, j \in DOMAIN globalACO.Nodes :
            /\ globalACO.Distances[i][j] = globalACO.Distances[j][i]
            /\ globalACO.Pheromones[i][j] = globalACO.Pheromones[j][i]

\* a Step of the open engine has completed in which an ant deposited on a
\* path of three nodes or more
C1_Witness ==
    /\ mode = "open"
    /\ AfterStep
    /\ \E s \in DOMAIN last.results :
          last.results[s].Success /\ Len(last.results[s].Path) >= 3
    /\ \E i, j \in DOMAIN globalACO.Nodes :
          globalACO.Pheromones[i][j] # Zero
          /\ globalACO.Pheromones[i][j] # InitialPheromone

\* C2: inside a Step the best solution changes only when an ant returns with
\* a successful candidate whose cost is strictly below the best cost so far,
\* and then to that candidate's cost and path; so the best cost never rises,
\* and a candidate of equal cost leaves cost and path as they are.
C2_BestOnlyStrictlyLower ==
    [][(globalACO # Nil /\ (pc # "idle" \/ pc' # "idle")
          /\ (globalACO'.BestDist # globalACO.BestDist
                \/ globalACO'.BestPath # globalACO.BestPath))
        => /\ RLess(globalACO'.BestDist, globalACO.BestDist)
           /\ pc = "loop" /\ pc' = "ant"
           /\ antResults'[k + 1].Success
           /\ antResults'[k + 1].Dist = globalACO'.BestDist
           /\ antResults'[k + 1].Path = globalACO'.BestPath]_vars

\* two ants of one Step succeeded with the same cost on different paths, and
\* the best solution is the earlier one's
C2_Witness ==
    /\ Returned
    /\ \E s, t \in DOMAIN antResults :
          /\ s < t /\ t <= k
          /\ antResults[s].Success /\ antResults[t].Success
          /\ antResults[s].Dist = antResults[t].Dist
          /\ antResults[s].Path # antResults[t].Path
          /\ globalACO.BestDist = antResults[s].Dist
          /\ globalACO.BestPath = antResults[s].Path

\* how often the walk pth passes the edge between i and j, in either direction
Traversals(pth, i, j) ==
    Cardinality({t \in 1 .. Len(pth) - 1 :
                    {pth[t], pth[t + 1]} = {i, j}})

\* some successful ant of the results walked the edge between i and j
WalkedBySuccess(results, i, j) ==
    \E s \in DOMAIN results :
        results[s].Success /\ Traversals(results[s].Path, i, j) > 0

\* C3: a failed ant changes no pheromone entry and does not abort the Step:
\* after a Step, every entry no successful ant walked holds its value at the
\* Step's entry times (1 - Evaporation) if it has an edge and that value
\* unchanged otherwise, so after a Step in which every ant failed every edge
\* holds exactly its old value times (1 - Evaporation); and after a failed
\* construction the Step goes on: it stands at the head of the ant loop, where
\* the guard of constructBegin (k < antCount) or of stepUpdate (k >= antCount)
\* holds.
C3_FailedAntsDepositNothing ==
    /\ (mode = "open" /\ AfterStep) =>
          \A i, j \in DOMAIN globalACO.Nodes :
              ~WalkedBySuccess(last.results, i, j) =>
                  globalACO.Pheromones[i][j] =
                      IF globalACO.Distances[i][j] # Inf
                      THEN RMul(last.pre[i][j], ROneMinus(Evaporation))
                      ELSE last.pre[i][j]
    /\ (mode = "open" /\ Returned /\ ended \in {"deadend", "budget"}) =>
          /\ ~antResults[k].Success
          /\ pc = "ant"
          /\ k \in 1 .. antCount

\* a Step has completed in which every ant failed
C3_Witness ==
    /\ mode = "open"
    /\ AfterStep
    /\ \A s \in DOMAIN last.results : ~last.results[s].Success
    /\ \E i, j \in DOMAIN globalACO.Nodes :
          globalACO.Pheromones[i][j] = RMul(InitialPheromone, ROneMinus(Evaporation))

\* the deposits of the results on the entry (i, j): Q / cost for every passage
\* of a successful ant, the closing edge of a tour included
RECURSIVE DepositSum(_, _, _, _)
DepositSum(results, s, i, j) ==
    IF s > Len(results) THEN Zero
    ELSE IF ~results[s].Success THEN DepositSum(results, s + 1, i, j)
    ELSE LET pth == IF mode = "tour"
                    THEN Append(results[s].Path, results[s].Path[1])
                    ELSE results[s].Path
         IN RAdd(DepositSum(results, s + 1, i, j),
                 RMul(<<Traversals(pth, i, j), 1>>, RDiv(Q, results[s].Dist)))

\* the entry (i, j) is evaporated by a Step
Evaporates(a, i, j) == mode = "tour" \/ a.Distances[i][j] # Inf

\* C4: after a Step every entry that evaporates holds
\* p * (1 - Evaporation) + sum(Q / ci), with p its value at the Step's entry
\* and ci the cost of every passage of a successful ant; it never holds
\* (p + sum(Q / ci)) * (1 - Evaporation) when something was deposited.
C4_EvaporateThenDeposit ==
    AfterStep =>
        \A i, j \in NodesOf(globalACO) :
            Evaporates(globalACO, i, j) =>
                LET p == last.pre[i][j]
                    d == DepositSum(last.results, 1, i, j)
                IN /\ globalACO.Pheromones[i][j] =
                        RAdd(RMul(p, ROneMinus(Evaporation)), d)
                   /\ (d # Zero /\ d # Inf) =>
                        globalACO.Pheromones[i][j] #
                            RMul(RAdd(p, d), ROneMinus(Evaporation))

\* a Step has completed in which two successful ants of different cost
\* walked the same edge
C4_Witness ==
    /\ AfterStep
    /\ \E i, j \in NodesOf(globalACO), s, t \in DOMAIN last.results :
          /\ s # t
          /\ last.results[s].Success /\ last.results[t].Success
          /\ last.results[s].Dist # last.results[t].Dist
          /\ Traversals(last.results[s].Path, i, j) > 0
          /\ Traversals(last.results[t].Path, i, j) > 0
          /\ last.pre[i][j] # Zero

\* the candidates of selectNextCity(cur, vis) in the running engine
CandidatesOf(a, cur, vis) ==
    IF mode = "open" THEN {i \in DOMAIN a.Nodes : Eligible(a, cur, vis, i)}
    ELSE {i \in DOMAIN a.Cities : ~vis[i]}

\* the scores selectNextCity(cur, vis) computes in the running engine
ScoresOf(a, cur, vis) ==
    IF mode = "open" THEN Probabilities(a, cur, vis) ELSE TourProbabilities(a, cur, vis)

\* every node selectNextCity(cur, vis) can return, over all draws, and what
\* its fallback scan returns
SelectionsOf(a, cur, vis) ==
    {Fallback(CandidatesOf(a, cur, vis))} \cup
    (IF mode = "open" THEN Selections(a, cur, vis) ELSE TourSelections(a, cur, vis))

\* what the claim asks of selectNextCity(cur, vis)
SelectionOK(a, cur, vis) ==
    /\ LET p == ScoresOf(a, cur, vis)
       IN \A i \in NodesOf(a) : p[i][2] > 0 /\ p[i][1] >= 0
    /\ \A next \in SelectionsOf(a, cur, vis) :
          next # -1 =>
              /\ next \in NodesOf(a)
              /\ ~vis[next]
              /\ IsFinite(a.Distances[cur][next])
              /\ next # cur

\* C5: at every current node, visited set and pheromone matrix an ant of
\* either engine reaches inside constructSolution, the scores of the selection
\* are finite and not negative, and a node the selection returns, by the
\* roulette under any draw or by the fallback scan, is unvisited and joined to
\* the current node by an edge of finite distance.
C5_SelectionBounds ==
    (globalACO # Nil /\ pc = "loop") => SelectionOK(globalACO, current, visited)

\* an ant of the open engine stands on a node with an unvisited neighbour and
\* an unvisited node it has no edge to, after a Step has changed the pheromone
C5_Witness ==
    /\ mode = "open"
    /\ pc = "loop"
    /\ last # NoLast
    /\ \E i, j \in DOMAIN globalACO.Nodes :
          /\ ~visited[i] /\ globalACO.Distances[current][i] = Inf /\ i # current
          /\ Eligible(globalACO, current, visited, j)
          /\ j \in SelectionsOf(globalACO, current, visited)

\* C6: a construction of the open engine is in progress with a path from the
\* start node to the current node and a loop counter within the budget, and
\* it can always go on or return; it returns in exactly one of three ways:
\* succeeded, only on the goal node and with a path from the start node to the
\* goal node; failed at a node that is not the goal and has no unvisited
\* neighbour; or failed with the budget of 2*N used up.
C6_TerminalStates ==
    (mode = "open" /\ globalACO # Nil) =>
        /\ pc = "loop" =>
              /\ ended = "none"
              /\ step <= 2 * NodeCount(globalACO)
              /\ path[1] = globalACO.StartNode
              /\ path[Len(path)] = current
              /\ Outcome(globalACO, current, visited, step) = "move" =>
                    Selections(globalACO, current, visited) \ {-1} # {}
        /\ Returned =>
              /\ ended \in {"goal", "deadend", "budget"}
              /\ (ended = "goal") = antResults[k].Success
              /\ ended = "goal" =>
                    /\ current = globalACO.GoalNode
                    /\ antResults[k].Path = path
                    /\ path[1] = globalACO.StartNode
                    /\ path[Len(path)] = globalACO.GoalNode
              /\ ended = "deadend" =>
                    /\ current # globalACO.GoalNode
                    /\ step < 2 * NodeCount(globalACO)
                    /\ \A i \in DOMAIN globalACO.Nodes :
                          visited[i] \/ globalACO.Distances[current][i] = Inf
              /\ ended = "budget" => step >= 2 * NodeCount(globalACO)

\* an ant has failed at a dead end two moves from the start, after an ant of
\* the same Step succeeded
C6_Witness ==
    /\ mode = "open"
    /\ Returned
    /\ ended = "deadend"
    /\ Len(path) >= 3
    /\ \E s \in 1 .. k : antResults[s].Success

\* C7: on the path graph 0-1-2-3 with start 0 and goal 3 every construction
\* succeeds, with the path 0, 1, 2, 3 and the sum of the three edge weights
\* as its cost; no construction fails.
C7_PathGraphAlwaysSucceeds ==
    /\ ended \notin {"deadend", "budget"}
    /\ Returned =>
          /\ ended = "goal"
          /\ antResults[k] =
                [Path    |-> <<0, 1, 2, 3>>,
                 Dist    |-> RAdd(RAdd(globalACO.Distances[0][1],
                                       globalACO.Distances[1][2]),
                                  globalACO.Distances[2][3]),
                 Success |-> TRUE]

\* on a path graph with two different weights the last ant of a second Step
\* has returned
C7_Witness ==
    /\ Returned
    /\ k = antCount
    /\ last # NoLast
    /\ ended = "goal"
    /\ globalACO.Distances[0][1] # globalACO.Distances[1][2]
    /\ globalACO.Pheromones[0][1] # InitialPheromone

\* the path visits every node of the engine exactly once
IsPermutation(pth, nodes) ==
    /\ Len(pth) = Cardinality(nodes)
    /\ {pth[t] : t \in DOMAIN pth} = nodes

\* C8: on the ring 0-1-2-3-4-0 with distance 1.0 and pheromone 1.0 on the ring
\* edges, one ant, the closed-tour engine's ant walks a permutation of the
\* five nodes at cost 5, and after the first Step the best cost is 5 and the
\* pheromone on each ring edge is 20.5.
C8_RingScenario ==
    /\ Returned =>
          /\ IsPermutation(antResults[k].Path, RingNodes)
          /\ antResults[k].Dist = <<5, 1>>
    /\ (AfterStep /\ calls = 1) =>
          /\ globalACO.BestDist = <<5, 1>>
          /\ \A i, j \in RingNodes :
                RingEdge(i, j) => globalACO.Pheromones[i][j] = <<41, 2>>

\* the engine initACO has just built
Fresh == mode = "open" /\ globalACO # Nil /\ pc = "idle" /\ last = NoLast

\* C9: the engine initACO(nodeCount) builds has exactly 2 nodes when
\* nodeCount is below 2 and exactly nodeCount nodes otherwise, with the ids
\* 0 .. N-1, and its best solution is none: the cost math.MaxFloat64 and no
\* path.
C9_InitializeClamps ==
    Fresh =>
        /\ NodeCount(globalACO) = (IF requested < 2 THEN 2 ELSE requested)
        /\ DOMAIN globalACO.Nodes = 0 .. (NodeCount(globalACO) - 1)
        /\ \A i \in DOMAIN globalACO.Nodes : globalACO.Nodes[i] = i
        /\ globalACO.BestDist = MaxFloat64
        /\ globalACO.BestPath = <<>>

\* initACO was called with a node count below 2 after two other host calls
C9_Witness ==
    /\ Fresh
    /\ requested < 2
    /\ calls = 3
    /\ NodeCount(globalACO) = 2

\* C10 as stated: initACO with nodeCount below 2 is rejected before any
\* engine state is created or changed.
C10_DegenerateRejected ==
    [][(pc = "idle" /\ pc' = "idle" /\ calls' # calls /\ requested' < 2)
        => globalACO' = globalACO]_vars

\* C10 as the code has it: a node count below 2 is not rejected but clamped;
\* a Step runs only on an engine that exists, with 2 nodes or more and with
\* one ant or more, and the engine initACO built from a node count below 2
\* has 2 nodes.
C10_NoStepBelowTwoNodes ==
    /\ (mode = "open" /\ pc # "idle") =>
          /\ globalACO # Nil
          /\ NodeCount(globalACO) >= 2
          /\ antCount > 0
          /\ Len(antResults) = antCount
    /\ (mode = "open" /\ globalACO # Nil /\ requested < 2) =>
          NodeCount(globalACO) = 2

\* a Step runs on the engine initACO built from a node count below 2
C10_Witness ==
    /\ mode = "open"
    /\ pc = "loop"
    /\ requested < 2
    /\ NodeCount(globalACO) = 2

\* the nodes a breadth-first search along the edges of finite distance reaches
\* from the nodes seen
RECURSIVE ReachableFrom(_, _)
ReachableFrom(a, seen) ==
    LET more == seen \cup {j \in DOMAIN a.Nodes :
                              \E i \in seen : a.Distances[i][j] # Inf}
    IN IF more = seen THEN seen ELSE ReachableFrom(a, more)

\* C11: every graph initialisation builds has 2 nodes or more and the ring
\* edge between i and (i+1) mod N for every i, whatever shortcuts are drawn,
\* and from every node every node is reached along edges of finite distance.
C11_RingConnectivity ==
    (mode = "open" /\ globalACO # Nil) =>
        LET n == NodeCount(globalACO) IN
        /\ n >= 2
        /\ \A i \in DOMAIN globalACO.Nodes :
              /\ globalACO.Distances[i][(i + 1) % n] # Inf
              /\ globalACO.Distances[(i + 1) % n][i] # Inf
              /\ ReachableFrom(globalACO, {i}) = DOMAIN globalACO.Nodes

\* initACO built a graph of MaxNodes nodes with a shortcut besides the ring
C11_Witness ==
    /\ Fresh
    /\ NodeCount(globalACO) = MaxNodes
    /\ Len(globalACO.Edges) > MaxNodes

\* the part of the engine addEdge works on
EdgeGraph(a) == [Distances |-> a.Distances, Pheromones |-> a.Pheromones, Edges |-> a.Edges]

\* the unordered node pair of an entry of the edge list
PairOf(e) == {e.From, e.To}

\* C12: on every graph the generation builds, adding an edge between two
\* nodes that are connected already, in either orientation and whatever the
\* weight, returns the distances, the pheromones and the edge list as they
\* are; the edge list holds no unordered pair twice, holds exactly the pairs
\* of finite distance, and every entry's weight is the distance of its pair.
C12_AddEdgeIdempotent ==
    (mode = "open" /\ globalACO # Nil /\ pc = "idle") =>
        LET g == EdgeGraph(globalACO)
            nodes == DOMAIN globalACO.Nodes
        IN /\ \A u, v \in nodes : \A w \in Weights :
                 g.Distances[u][v] # Inf =>
                     LET weight == [p \in Pairs(NodeCount(globalACO)) |-> w]
                     IN addEdge(g, u, v, weight) = g /\ addEdge(g, v, u, weight) = g
           /\ \A s, t \in DOMAIN g.Edges :
                 s # t => PairOf(g.Edges[s]) # PairOf(g.Edges[t])
           /\ {PairOf(g.Edges[s]) : s \in DOMAIN g.Edges}
                 = {{x[1], x[2]} : x \in {y \in nodes \X nodes :
                                               g.Distances[y[1]][y[2]] # Inf}}
           /\ \A s \in DOMAIN g.Edges :
                 g.Edges[s].Weight = g.Distances[g.Edges[s].From][g.Edges[s].To]

\* initACO built the graph of 2 nodes, whose ring names the pair 0-1 twice
C12_Witness ==
    /\ Fresh
    /\ NodeCount(globalACO) = 2
    /\ Len(globalACO.Edges) = 1
    /\ globalACO.Distances[1][0] # Inf

\* C13: in every state reachable from initialisation by Step calls, also
\* inside a Step, pheromone(i,j) is zero wherever distance(i,j) is "no edge"
\* and is nowhere below zero; in the state initialisation leaves, it is
\* InitialPheromone on every edge.
C13_PheromoneZeroOffEdges ==
    (mode = "open" /\ globalACO # Nil) =>
        \A i, j \in DOMAIN globalACO.Nodes :
            /\ globalACO.Distances[i][j] = Inf => globalACO.Pheromones[i][j] = Zero
            /\ RGeq(globalACO.Pheromones[i][j], Zero)
            /\ (Fresh /\ globalACO.Distances[i][j] # Inf) =>
                  globalACO.Pheromones[i][j] = InitialPheromone

\* after a Step with a deposit, on a graph that has two distinct nodes
\* without an edge
C13_Witness ==
    /\ mode = "open"
    /\ AfterStep
    /\ \E i, j \in DOMAIN globalACO.Nodes :
          i # j /\ globalACO.Distances[i][j] = Inf
    /\ \E i, j \in DOMAIN globalACO.Nodes :
          RLess(InitialPheromone, globalACO.Pheromones[i][j])

\* C14: every transition of a Step (its entry, its constructions, its
\* pheromone update) leaves the node list, the edge list, the distance
\* matrix and the start and goal indices as they are, so after any sequence
\* of Steps they are what initialisation made them: the ids 0 .. N-1, start
\* 0, goal N-1; only the pheromone matrix and the best solution change.
C14_StepFrame ==
    /\ []((mode = "open" /\ globalACO # Nil) =>
            /\ globalACO.StartNode = 0
            /\ globalACO.GoalNode = NodeCount(globalACO) - 1
            /\ globalACO.Nodes = [i \in Idx(NodeCount(globalACO)) |-> i])
    /\ [][(mode = "open" /\ globalACO # Nil /\ (pc # "idle" \/ pc' # "idle")) =>
            /\ globalACO'.Nodes = globalACO.Nodes
            /\ globalACO'.Edges = globalACO.Edges
            /\ globalACO'.Distances = globalACO.Distances
            /\ globalACO'.StartNode = globalACO.StartNode
            /\ globalACO'.GoalNode = globalACO.GoalNode]_vars

\* two Steps have completed on one engine and changed pheromone and best
C14_Witness ==
    /\ mode = "open"
    /\ AfterStep
    /\ calls = MaxCalls
    /\ globalACO.BestDist # MaxFloat64
    /\ \E i, j \in DOMAIN globalACO.Nodes :
          RLess(Zero, globalACO.Pheromones[i][j])
          /\ RLess(globalACO.Pheromones[i][j], RMul(InitialPheromone, ROneMinus(Evaporation)))

\* C15: in closed-tour mode every construction succeeds: while it runs, the
\* path holds no city twice and exactly the visited ones, and for every draw
\* the selection returns an unvisited city, never "no move"; when it returns,
\* for every start city, the path holds each of the N cities exactly once
\* and is recorded as a success.
C15_TourAlwaysPermutation ==
    /\ (mode = "tour" /\ pc = "loop") =>
          /\ Cardinality({path[t] : t \in DOMAIN path}) = Len(path)
          /\ \A i \in DOMAIN globalACO.Cities :
                visited[i] <=> \E t \in DOMAIN path : path[t] = i
          /\ Len(path) < CityCount(globalACO) =>
                \A next \in TourSelections(globalACO, current, visited) :
                    next \in DOMAIN globalACO.Cities /\ ~visited[next]
    /\ (mode = "tour" /\ Returned) =>
          /\ antResults[k].Success
          /\ IsPermutation(antResults[k].Path, DOMAIN globalACO.Cities)

\* a tour over MaxNodes cities has returned that started at the last city
C15_Witness ==
    /\ mode = "tour"
    /\ Returned
    /\ CityCount(globalACO) = MaxNodes
    /\ antResults[k].Path[1] = MaxNodes - 1
    /\ antResults[k].Path[MaxNodes] # 0

\* pth has 2 to N nodes, no node twice, and an edge of finite distance
\* between every two consecutive nodes
SimpleEdgePath(a, pth) ==
    /\ Len(pth) >= 2
    /\ Len(pth) <= NodeCount(a)
    /\ \A s, t \in DOMAIN pth : s # t => pth[s] # pth[t]
    /\ \A t \in 1 .. Len(pth) - 1 : a.Distances[pth[t]][pth[t + 1]] # Inf

\* C16: every path the open-mode constructor returns as a success, which is
\* every path the evaluator was given and every path the deposit phase
\* walks, has 2 to N nodes, no node twice and an edge of finite distance
\* between every two consecutive nodes (so its cost is finite).
C16_SuccessfulPathsSimple ==
    /\ (mode = "open" /\ pc \in {"ant", "loop"}) =>
          \A s \in 1 .. k :
              antResults[s].Success =>
                  /\ SimpleEdgePath(globalACO, antResults[s].Path)
                  /\ IsFinite(antResults[s].Dist)
    /\ (mode = "open" /\ pc = "loop"
          /\ Outcome(globalACO, current, visited, step) = "goal") =>
              SimpleEdgePath(globalACO, path)
    /\ (mode = "open" /\ AfterStep) =>
          \A s \in DOMAIN last.results :
              last.results[s].Success => SimpleEdgePath(globalACO, last.results[s].Path)

\* an ant succeeded on a path through all MaxNodes nodes and another on a
\* path of 2 nodes, and the Step deposited on both
C16_Witness ==
    /\ mode = "open"
    /\ AfterStep
    /\ \E s, t \in DOMAIN last.results :
          /\ last.results[s].Success /\ Len(last.results[s].Path) = MaxNodes
          /\ last.results[t].Success /\ Len(last.results[t].Path) = 2

\* C17: inside a Step no pheromone entry is written before all the
\* constructions of the Step have returned: every transition of a Step but
\* its update after the last ant leaves the matrix as it is, so while the
\* ants of a Step run the matrix is the one initialisation built or the one
\* the previous Step's update left.
C17_NoWriteBeforeBarrier ==
    /\ []((mode = "open" /\ globalACO # Nil /\ pc # "idle") =>
            IF last = NoLast
            THEN \A i, j \in DOMAIN globalACO.Nodes :
                     globalACO.Pheromones[i][j] =
                         IF globalACO.Distances[i][j] # Inf THEN InitialPheromone ELSE Zero
            ELSE globalACO.Pheromones =
                     updatePheromones([globalACO EXCEPT !.Pheromones = last.pre],
                                      last.results))
    /\ [][(mode = "open" /\ globalACO # Nil
            /\ (pc # "idle" \/ pc' # "idle")
            /\ ~(pc = "ant" /\ k >= antCount))
           => globalACO'.Pheromones = globalACO.Pheromones]_vars

\* in the second Step of an engine an ant moves after an earlier ant of the
\* same Step has succeeded
C17_Witness ==
    /\ mode = "open"
    /\ pc = "loop"
    /\ last # NoLast
    /\ k >= 1
    /\ antResults[1].Success
    /\ step >= 1

\* the node cur has an unvisited node directly connected to it
HasUnvisitedNeighbour(a, cur, vis) ==
    \E i \in DOMAIN a.Nodes : ~vis[i] /\ a.Distances[cur][i] # Inf

\* C18: wherever constructSolution calls the selection, it returns "no move"
\* (-1) for every draw if the current node has no unvisited node directly
\* connected to it, and a node for every draw if it has one.
C18_NoMoveIffNoNeighbour ==
    (mode = "open" /\ pc = "loop" /\ current # globalACO.GoalNode
        /\ step < maxSteps(globalACO)) =>
            IF HasUnvisitedNeighbour(globalACO, current, visited)
            THEN -1 \notin Selections(globalACO, current, visited)
            ELSE Selections(globalACO, current, visited) = {-1}

\* the best solution of a is a simple path from the start node to the goal
\* node along edges, and the best cost is the sum of its edge weights
BestIsValidPath(a) ==
    /\ SimpleEdgePath(a, a.BestPath)
    /\ a.BestPath[1] = a.StartNode
    /\ a.BestPath[Len(a.BestPath)] = a.GoalNode
    /\ IsFinite(a.BestDist)
    /\ a.BestDist = calculatePathDistance(a, a.BestPath)

\* C19: in every state of the open engine, either the best solution is
\* "none" (cost math.MaxFloat64, no path) and no ant of the running Step or
\* of the latest completed Step has succeeded, or the best path is a simple
\* path from the start node to the goal node along edges whose weights sum
\* to the best cost; and no transition of a Step changes the best path
\* without changing the best cost with it.
C19_BestIsValidOrNone ==
    /\ []((mode = "open" /\ globalACO # Nil) =>
            IF globalACO.BestDist = MaxFloat64
            THEN /\ globalACO.BestPath = <<>>
                 /\ \A s \in 1 .. k : ~antResults[s].Success
                 /\ \A s \in DOMAIN last.results : ~last.results[s].Success
            ELSE BestIsValidPath(globalACO))
    /\ [][(mode = "open" /\ globalACO # Nil /\ (pc # "idle" \/ pc' # "idle")
            /\ globalACO'.BestPath # globalACO.BestPath)
           => globalACO'.BestDist # globalACO.BestDist]_vars

\* after two Steps the best path has three nodes or more, and an ant of the
\* latest Step succeeded at a higher cost without replacing it
C19_Witness ==
    /\ mode = "open"
    /\ AfterStep
    /\ calls = MaxCalls
    /\ Len(globalACO.BestPath) >= 3
    /\ \E s \in DOMAIN last.results :
          last.results[s].Success /\ RLess(globalACO.BestDist, last.results[s].Dist)

\* C20: in open mode the budget of 2*N steps never ends a construction: the
\* loop counter is the number of moves made, every move marks a new node, so
\* it stays at or below N-1 and below the budget, and every construction
\* returns at the goal or in a dead end.
C20_BudgetNeverReached ==
    /\ mode = "open" => ended # "budget"
    /\ (mode = "open" /\ pc = "loop") =>
          /\ step = Len(path) - 1
          /\ step = Cardinality({i \in DOMAIN visited : visited[i]}) - 1
          /\ step <= NodeCount(globalACO) - 1
          /\ step < maxSteps(globalACO)
          /\ Outcome(globalACO, current, visited, step) # "budget"
    /\ (mode = "open" /\ Returned) => ended \in {"goal", "deadend"}

\* in one Step an ant ended in a dead end and the next reached the goal with
\* the most moves there can be, MaxNodes - 1
C20_Witness ==
    /\ mode = "open"
    /\ Returned
    /\ k = 2
    /\ ~antResults[1].Success
    /\ ended = "goal"
    /\ step = MaxNodes - 1

====
